---- MODULE Spec2Model ----
(***************************************************************************)
(* PulseGuard SOS dashboard (src/app.py): the session state kept across    *)
(* script runs and the one update made per run,                            *)
(* update_state_from_source_once, with its helpers parse_payload,          *)
(* fetch_http_json and simulate_payload_dict.                              *)
(*                                                                         *)
(* Time is counted in whole minutes of UTC wall clock.  A datetime is a    *)
(* record [wall, aware, off]: the wall-clock reading, whether it carries a *)
(* tzinfo, and the offset of that tzinfo from UTC in minutes.  An ISO-8601 *)
(* string is a record [wall, suffix]: the date-time part and the text that *)
(* follows it ("Z", "+00:00", "+01:00", "" or text that does not parse).   *)
(* An optional value is a sequence of length at most one (None == <<>>).   *)
(*                                                                         *)
(* Line 178 of src/app.py (the return of parse_payload) is indented at     *)
(* column 0; the model reads it as the last statement of parse_payload,    *)
(* which is what its docstring and its only call site (line 253) say.      *)
(***************************************************************************)
EXTENDS Integers, Sequences, FiniteSets, TLC

VARIABLES
    hr_series,      \* st.session_state.hr_series: sequence of <<datetime, bpm>>
    alerts,         \* st.session_state.alerts: sequence of alert records
    sleep,          \* st.session_state.sleep
    fitness,        \* st.session_state.fitness
    nutrition,      \* st.session_state.nutrition
    last_sync,      \* st.session_state.last_sync (optional datetime)
    now,            \* the UTC wall clock, in minutes
    data_source,    \* sidebar: "Simulated" or "HTTP"
    data_url,       \* sidebar: "" or a URL
    alert_low,      \* sidebar: alert threshold low
    alert_high,     \* sidebar: alert threshold high
    fetched,        \* last run: what fetch_http_json did ("not_called", or how it ended)
    sim_calls,      \* last run: calls of simulate_payload_dict
    payload,        \* last run: the payload handed to parse_payload (optional)
    ts,             \* last run: ts returned by parse_payload (optional)
    hr_int,         \* last run: hr_int (optional integer)
    result          \* last run: "none" before the first run, "completed" or "raised"

vars == <<hr_series, alerts, sleep, fitness, nutrition, last_sync, now,
          data_source, data_url, alert_low, alert_high,
          fetched, sim_calls, payload, ts, hr_int, result>>

session == <<hr_series, alerts, sleep, fitness, nutrition, last_sync>>
sidebar == <<data_source, data_url, alert_low, alert_high>>

----------------------------------------------------------------------------
(* Program constants *)

WindowMinutes == 10
AlertLogCapacity == 50
HttpOk == 200
safe_low == 55
safe_high == 100
HighSpan == 20
LowFloor == 30
LowSpan == 10
Baseline == 72
JitterSpan == 3

(* Bounds of the model *)

MaxNow == 18
MaxNowCap == 60

----------------------------------------------------------------------------
(* Optional values *)

None == <<>>
Some(v) == <<v>>

(* Loosely typed (JSON) values: a missing key, null, a boolean, an integer, *)
(* a float (in tenths), a string, a mapping, a list.                        *)

Absent == [kind |-> "absent"]
JNull == [kind |-> "null"]
JBool(b) == [kind |-> "bool", b |-> b]
JInt(n) == [kind |-> "int", n |-> n]
JFloat(tenths) == [kind |-> "float", tenths |-> tenths]
JStr(s) == [kind |-> "str", s |-> s]
JMap(m) == [kind |-> "map", m |-> m]
JList(l) == [kind |-> "list", l |-> l]

\* payload.get(key, default): a missing key gives the default, a null gives None
Truthy(v) ==
    CASE v.kind = "absent" -> FALSE
      [] v.kind = "null" -> FALSE
      [] v.kind = "bool" -> v.b
      [] v.kind = "int" -> v.n # 0
      [] v.kind = "float" -> v.tenths # 0
      [] v.kind = "str" -> v.s # <<>>
      [] v.kind = "map" -> DOMAIN v.m # {}
      [] v.kind = "list" -> v.l # <<>>

----------------------------------------------------------------------------
(* datetime *)

Aware(w, o) == [wall |-> w, aware |-> TRUE, off |-> o]
Naive(w) == [wall |-> w, aware |-> FALSE, off |-> 0]

\* datetime.now(timezone.utc)
NowUtc(clock) == Aware(clock, 0)

\* the absolute instant of an aware datetime, as comparisons between aware datetimes use it
Instant(d) == d.wall - d.off

\* ts.replace(tzinfo=timezone.utc)
ReplaceTzUtc(d) == Aware(d.wall, 0)

\* faulty variant of AsTimezoneUtc: the datetime keeps the offset it was parsed with
KeepOffset(d) == d

\* ts.astimezone(timezone.utc)
AsTimezoneUtc(d) == Aware(d.wall - d.off, 0)

OffsetMinutes == [t \in {"+00:00", "+01:00"} |-> IF t = "+00:00" THEN 0 ELSE 60]

IsoText(w, suffix) == [wall |-> w, suffix |-> suffix]

\* str.replace(old, new) on the part of an ISO string that follows the date-time
StrReplace(s, old, new) == IF s.suffix = old THEN IsoText(s.wall, new) ELSE s

\* datetime.isoformat()
IsoFormat(d) ==
    IF ~d.aware THEN IsoText(d.wall, "")
    ELSE IsoText(d.wall, CHOOSE t \in DOMAIN OffsetMinutes : OffsetMinutes[t] = d.off)

\* datetime.fromisoformat(text): <<datetime>>, or <<>> when it raises ValueError; the
\* text it is given never ends in Z, which line 161 has replaced
FromIsoFormat(s) ==
    IF s.suffix = "" THEN Some(Naive(s.wall))
    ELSE IF s.suffix \in DOMAIN OffsetMinutes THEN Some(Aware(s.wall, OffsetMinutes[s.suffix]))
    ELSE None

----------------------------------------------------------------------------
(* dict helpers *)

EmptyMap == [k \in {} |-> JNull]

\* d.get(key, default)
Get(d, key, default) == IF key \in DOMAIN d THEN d[key] ELSE default

\* a dict literal: the keys whose value is not Absent
PayloadKeys == {"timestamp", "heart_rate_bpm", "sleep", "fitness", "nutrition"}

Dict(tsv, hrv, sl, ft, nu) ==
    LET all == [timestamp |-> tsv, heart_rate_bpm |-> hrv, sleep |-> sl,
                fitness |-> ft, nutrition |-> nu]
        keys == {k \in PayloadKeys : all[k].kind # "absent"}
    IN JMap([k \in keys |-> all[k]])

DigitValue == [c \in {"0", "1", "2", "3", "4", "5", "6", "7", "8", "9"} |->
    CASE c = "0" -> 0 [] c = "1" -> 1 [] c = "2" -> 2 [] c = "3" -> 3 [] c = "4" -> 4
      [] c = "5" -> 5 [] c = "6" -> 6 [] c = "7" -> 7 [] c = "8" -> 8 [] c = "9" -> 9]

RECURSIVE DecimalValue(_)
DecimalValue(chars) ==
    IF chars = <<>> THEN 0
    ELSE 10 * DecimalValue(SubSeq(chars, 1, Len(chars) - 1)) + DigitValue[chars[Len(chars)]]

\* int(hr) inside try/except (lines 257-261): <<n>>, or <<>> when int() raises
IntOf(v) ==
    CASE v.kind = "int" -> Some(v.n)
      [] v.kind = "bool" -> Some(IF v.b THEN 1 ELSE 0)
      [] v.kind = "float" ->                            \* truncation toward zero
            Some(IF v.tenths >= 0 THEN v.tenths \div 10 ELSE -((-v.tenths) \div 10))
      [] v.kind = "str" ->
            IF v.s # <<>> /\ \A i \in 1..Len(v.s) : v.s[i] \in DOMAIN DigitValue
            THEN Some(DecimalValue(v.s))
            ELSE None
      [] OTHER -> None

----------------------------------------------------------------------------
(* parse_payload (lines 143-178) *)

\* lines 153-170: the timestamp, always an aware UTC datetime
ParseTimestamp(ts_raw, clock) ==
    LET parsed ==
            CASE ts_raw.kind = "datetime" -> Some(ts_raw.d)
              [] ts_raw.kind = "str" -> FromIsoFormat(StrReplace(ts_raw.s, "Z", "+00:00"))
              [] OTHER -> Some(NowUtc(clock))
    IN IF parsed = None THEN NowUtc(clock)              \* except Exception
       ELSE IF ~parsed[1].aware THEN ReplaceTzUtc(parsed[1])
       ELSE AsTimezoneUtc(parsed[1])

\* payload.get(key, {}) or {}
PanelOf(p, key) ==
    LET v == Get(p, key, JMap(EmptyMap))
    IN IF Truthy(v) THEN v ELSE JMap(EmptyMap)

parse_payload(raw, clock) ==
    LET p == IF raw.kind = "map" THEN raw.m ELSE EmptyMap
    IN [ts |-> ParseTimestamp(Get(p, "timestamp", JNull), clock),
        hr |-> Get(p, "heart_rate_bpm", JNull),
        sleep |-> PanelOf(p, "sleep"),
        fitness |-> PanelOf(p, "fitness"),
        nutrition |-> PanelOf(p, "nutrition")]

----------------------------------------------------------------------------
(* fetch_http_json (lines 180-192): the value returned, JNull for None *)

HttpTimeout == [kind |-> "timeout"]
HttpResponse(status, valid, json) ==
    [kind |-> "response", status |-> status, valid |-> valid, json |-> json]

fetch_http_json(url, resp) ==
    IF url = "" THEN JNull
    ELSE IF resp.kind # "response" THEN JNull           \* requests.get raised
    ELSE IF resp.status = HttpOk
         THEN IF resp.valid THEN resp.json ELSE JNull   \* r.json() raised
         ELSE JNull

\* how the call ended, for the record of the run
FetchOutcome(url, resp) ==
    IF url = "" THEN "empty_url"
    ELSE IF resp.kind # "response" THEN "exception"
    ELSE IF resp.status # HttpOk THEN "bad_status"
    ELSE IF ~resp.valid THEN "bad_json"
    ELSE "ok"

----------------------------------------------------------------------------
(* simulate_payload_dict (lines 194-239) *)

\* random.randint(a, b) with the draw u: <<n>>, or <<>> when the range is empty (ValueError)
RandInt(a, b, u) ==
    IF a > b THEN None
    ELSE Some(IF u = "min" THEN a ELSE b)

Max(a, b) == IF a >= b THEN a ELSE b

sleep_options == <<
    [duration_min |-> JInt(0), quality |-> JStr(<<"-">>)],
    [duration_min |-> JInt(360), quality |-> JStr(<<"f", "a", "i", "r">>)],
    [duration_min |-> JInt(420), quality |-> JStr(<<"g", "o", "o", "d">>)],
    [duration_min |-> JInt(480), quality |-> JStr(<<"e", "x", "c", "e", "l", "l", "e", "n", "t">>)] >>

\* lines 200-207: the heart rate; draw.r is random.random() in hundredths
SimulatedHr(lo, hi, draw) ==
    IF draw.r < 3 THEN RandInt(hi, hi + HighSpan, draw.pick)
    ELSE IF draw.r < 6 THEN RandInt(Max(LowFloor, lo - LowSpan), lo, draw.pick)
    ELSE LET jitter == RandInt(-JitterSpan, JitterSpan, draw.pick)
         IN Some(Baseline + draw.circadian + jitter[1])

\* <<payload>>, or <<>> when the call raises
simulate_payload_dict(clock, lo, hi, draw) ==
    LET hr == SimulatedHr(lo, hi, draw)
    IN IF hr = None THEN None
       ELSE Some(Dict(
                JStr(StrReplace(IsoFormat(NowUtc(clock)), "+00:00", "Z")),
                JInt(hr[1]),
                JMap(sleep_options[draw.sleep]),
                JMap([steps |-> JInt(draw.steps), calories |-> JInt(draw.calories)]),
                JMap([hydration_ml |-> JInt(draw.hydration_ml), meals |-> JInt(draw.meals)])))

----------------------------------------------------------------------------
(* update_state_from_source_once (lines 244-296) *)

\* data_source.startswith("HTTP") over the two options of the selectbox (lines 94-98)
SourceSimulated == "Simulated (realistic)"
SourceHttp == "HTTP JSON (watch/phone companion)"
IsHttp(source) == source = SourceHttp

\* line 266: cutoff = datetime.now(timezone.utc) - timedelta(minutes=10)
Cutoff(clock) == Aware(clock - WindowMinutes, 0)

\* faulty variant of KeepRecent: the comprehension tests the shape and forgets the age
KeepAware(series, cutoff) ==
    SelectSeq(series, LAMBDA p : p[1].aware)

\* lines 268-271: the samples kept
KeepRecent(series, cutoff) ==
    SelectSeq(series, LAMBDA p : p[1].aware /\ Instant(p[1]) >= Instant(cutoff))

\* faulty variant of IsBreach: the safe band is compared instead of the alert thresholds
IsBreachSafe(v, lo, hi) == v >= safe_high \/ v <= safe_low

\* line 274
IsBreach(v, lo, hi) == v >= hi \/ v <= lo

\* lines 275-280
AlertEntry(tsd, v) ==
    [time |-> StrReplace(IsoFormat(tsd), "+00:00", "Z"),
     type |-> "EMERGENCY",
     value |-> v,
     message |-> <<"Heart rate ", v, " bpm out of bounds">>]

\* faulty variant of LastEntries: alerts[:50], the newest entries are the ones cut
FirstEntries(log) ==
    IF Len(log) <= AlertLogCapacity THEN log
    ELSE SubSeq(log, 1, AlertLogCapacity)

\* line 281: alerts[-50:]
LastEntries(log) ==
    IF Len(log) <= AlertLogCapacity THEN log
    ELSE SubSeq(log, Len(log) - AlertLogCapacity + 1, Len(log))

\* faulty variant of HeartRateBlock: the log is filtered by the cutoff like the series
HeartRateBlockPruned(series, log, tsd, hr, clock, lo, hi) ==
    LET hv == IF hr.kind = "null" THEN None ELSE IntOf(hr)
        recent == SelectSeq(log, LAMBDA a : a.time.wall >= clock - WindowMinutes)
    IN IF hv = None THEN [hr_int |-> None, series |-> series, log |-> log]
       ELSE [hr_int |-> hv,
             series |-> KeepRecent(Append(series, <<tsd, hv[1]>>), Cutoff(clock)),
             log |-> IF IsBreach(hv[1], lo, hi)
                     THEN LastEntries(Append(recent, AlertEntry(tsd, hv[1])))
                     ELSE recent]

\* lines 256-281: hr_int, and the series and the log after the block
HeartRateBlock(series, log, tsd, hr, clock, lo, hi) ==
    LET hv == IF hr.kind = "null" THEN None ELSE IntOf(hr)
    IN IF hv = None THEN [hr_int |-> None, series |-> series, log |-> log]
       ELSE [hr_int |-> hv,
             series |-> KeepRecent(Append(series, <<tsd, hv[1]>>), Cutoff(clock)),
             log |-> IF IsBreach(hv[1], lo, hi)
                     THEN LastEntries(Append(log, AlertEntry(tsd, hv[1])))
                     ELSE log]

\* lines 284-295, one panel: update.get(key, previous.get(key)) for each key
MergePanel(previous, update) ==
    [k \in DOMAIN previous |-> Get(update.m, k, previous[k])]

\* lines 284-295: the three panels in order; .get on a value that is no dict raises
\* AttributeError and leaves the panels not yet assigned as they were
MergePanels(sl, ft, nu, parsed) ==
    IF parsed.sleep.kind # "map"
    THEN [sleep |-> sl, fitness |-> ft, nutrition |-> nu, raised |-> TRUE]
    ELSE IF parsed.fitness.kind # "map"
    THEN [sleep |-> MergePanel(sl, parsed.sleep), fitness |-> ft, nutrition |-> nu,
          raised |-> TRUE]
    ELSE IF parsed.nutrition.kind # "map"
    THEN [sleep |-> MergePanel(sl, parsed.sleep), fitness |-> MergePanel(ft, parsed.fitness),
          nutrition |-> nu, raised |-> TRUE]
    ELSE [sleep |-> MergePanel(sl, parsed.sleep), fitness |-> MergePanel(ft, parsed.fitness),
          nutrition |-> MergePanel(nu, parsed.nutrition), raised |-> FALSE]

\* lines 253-296 on the payload raw, at the clock reading clock; the calls of
\* datetime.now of one run (lines 163, 170, 198, 266, 296) read the same minute
Update(raw, clock) ==
    LET parsed == parse_payload(raw, clock)
        block == HeartRateBlock(hr_series, alerts, parsed.ts, parsed.hr, clock,
                                alert_low, alert_high)
        panels == MergePanels(sleep, fitness, nutrition, parsed)
    IN /\ payload' = Some(raw)
       /\ ts' = Some(parsed.ts)
       /\ hr_int' = block.hr_int
       /\ hr_series' = block.series
       /\ alerts' = block.log
       /\ sleep' = panels.sleep
       /\ fitness' = panels.fitness
       /\ nutrition' = panels.nutrition
       /\ IF panels.raised
          THEN result' = "raised" /\ last_sync' = last_sync
          ELSE result' = "completed" /\ last_sync' = Some(NowUtc(clock))

\* simulate_payload_dict raised (line 203 or 205): nothing of the session is touched
Aborted ==
    /\ payload' = None
    /\ ts' = None
    /\ hr_int' = None
    /\ result' = "raised"
    /\ UNCHANGED session

\* lines 250-251: the simulated source
RunSimulated(dt, draw) ==
    /\ ~IsHttp(data_source)
    /\ now' = now + dt
    /\ fetched' = "not_called"
    /\ sim_calls' = 1
    /\ LET sim == simulate_payload_dict(now + dt, alert_low, alert_high, draw)
       IN IF sim = None THEN Aborted ELSE Update(sim[1], now + dt)
    /\ UNCHANGED sidebar

\* lines 246-248: the HTTP source, fetch_http_json returned a payload
RunHttp(dt, resp) ==
    /\ IsHttp(data_source)
    /\ fetch_http_json(data_url, resp).kind # "null"
    /\ now' = now + dt
    /\ fetched' = FetchOutcome(data_url, resp)
    /\ sim_calls' = 0
    /\ Update(fetch_http_json(data_url, resp), now + dt)
    /\ UNCHANGED sidebar

\* lines 246-249: the HTTP source, fetch_http_json returned None
RunHttpFallback(dt, resp, draw) ==
    /\ IsHttp(data_source)
    /\ fetch_http_json(data_url, resp).kind = "null"
    /\ now' = now + dt
    /\ fetched' = FetchOutcome(data_url, resp)
    /\ sim_calls' = 1
    /\ LET sim == simulate_payload_dict(now + dt, alert_low, alert_high, draw)
       IN IF sim = None THEN Aborted ELSE Update(sim[1], now + dt)
    /\ UNCHANGED sidebar

----------------------------------------------------------------------------
(* init_state_once (lines 123-136) and the sidebar (lines 94-112) *)

Thresholds == {[low |-> 45, high |-> 120], [low |-> 25, high |-> 120]}
Sidebars == {<<SourceSimulated, "">>, <<SourceHttp, "">>, <<SourceHttp, "https://feed">>}

init_state_once ==
    /\ hr_series = <<>>
    /\ alerts = <<>>
    /\ sleep = [duration_min |-> JNull, quality |-> JNull]
    /\ fitness = [steps |-> JNull, calories |-> JNull]
    /\ nutrition = [hydration_ml |-> JNull, meals |-> JNull]
    /\ last_sync = None

Init ==
    /\ init_state_once
    /\ now = 0
    /\ \E s \in Sidebars : data_source = s[1] /\ data_url = s[2]
    /\ \E t \in Thresholds : alert_low = t.low /\ alert_high = t.high
    /\ fetched = "not_called"
    /\ sim_calls = 0
    /\ payload = None
    /\ ts = None
    /\ hr_int = None
    /\ result = "none"

----------------------------------------------------------------------------
(* The inputs of one run *)

\* minutes between two runs
Delays == {7, 11}

\* the random draws of simulate_payload_dict: r in hundredths, the end of the range
\* randint picks, int(4 * (random.random() - 0.5)), the index into sleep_options
Draws ==
    [r : {2, 4, 50}, pick : {"min", "max"}, circadian : {0}, sleep : {1, 3},
     steps : {800}, calories : {180}, hydration_ml : {600}, meals : {1}]

Fair == <<"f", "a", "i", "r">>
Excellent == <<"e", "x", "c", "e", "l", "l", "e", "n", "t">>

\* the timestamp of a remote payload
Timestamps(clock) ==
    {Absent, JNull, JInt(5),
     JStr(IsoText(clock, "Z")),
     JStr(IsoText(clock, "")),
     JStr(IsoText(clock + 60, "+01:00")),
     JStr(IsoText(clock - WindowMinutes, "Z")),
     JStr(IsoText(clock - WindowMinutes, "+00:00")),
     JStr(IsoText(clock - WindowMinutes, "junk")),
     JStr(IsoText(clock - WindowMinutes - 1, "Z"))}

\* the heart rate of a remote payload
HeartRates ==
    {Absent, JNull, JInt(110), JInt(40), JFloat(1209), JBool(TRUE),
     JStr(<<"1", "3", "0">>), JStr(<<"a", "b", "c">>)}

\* the sleep, fitness and nutrition of a remote payload
FullSleep == JMap([duration_min |-> JInt(480), quality |-> JStr(Excellent)])
FullFitness == JMap([steps |-> JInt(12000), calories |-> JInt(650)])
FullNutrition == JMap([hydration_ml |-> JInt(2500), meals |-> JInt(4)])

Panels ==
    {<<Absent, Absent, Absent>>,
     <<FullSleep, FullFitness, FullNutrition>>,
     <<JMap([duration_min |-> JInt(360)]), JMap(EmptyMap), JNull>>,
     <<JMap([duration_min |-> JNull, quality |-> JStr(Fair)]), Absent, Absent>>,
     <<JStr(<<"a", "b", "c">>), FullFitness, Absent>>,
     <<FullSleep, Absent, JList(<<1>>)>>,
     <<JInt(0), JMap([steps |-> JInt(5000)]), Absent>>}

RemotePayloads(clock) ==
    {Dict(t, h, Absent, Absent, Absent) : t \in Timestamps(clock), h \in {JInt(130), JInt(75)}}
    \cup {Dict(JStr(IsoText(clock, "Z")), h, p[1], p[2], p[3]) : h \in HeartRates, p \in Panels}
    \cup {JList(<<>>)}

Responses(clock) ==
    {HttpTimeout, HttpResponse(500, TRUE, JNull), HttpResponse(HttpOk, FALSE, JNull),
     HttpResponse(HttpOk, TRUE, JNull)}
    \cup {HttpResponse(HttpOk, TRUE, p) : p \in RemotePayloads(clock)}

\* the responses on which fetch_http_json returns None; with an empty URL no request
\* is made (line 181), whatever the server would have answered
NoData(url, clock) ==
    IF url = "" THEN {HttpTimeout}
    ELSE {r \in Responses(clock) : fetch_http_json(url, r).kind = "null"}

\* one run of the script: line 299, once per load and per rerun (line 461)
TickSimulated ==
    \E dt \in Delays :
        /\ now + dt <= MaxNow
        /\ \E draw \in Draws : RunSimulated(dt, draw)

TickHttp ==
    \E dt \in Delays :
        /\ now + dt <= MaxNow
        /\ IsHttp(data_source)
        /\ \E resp \in Responses(now + dt) : RunHttp(dt, resp)

TickHttpFallback ==
    \E dt \in Delays :
        /\ now + dt <= MaxNow
        /\ IsHttp(data_source)
        /\ \E resp \in NoData(data_url, now + dt) :
              \E draw \in Draws : RunHttpFallback(dt, resp, draw)

Next == TickSimulated \/ TickHttp \/ TickHttpFallback

Spec == Init /\ [][Next]_vars

----------------------------------------------------------------------------
(* A long session on the simulated source: a run every minute, each one a  *)
(* high excursion, so that the alert log fills up and overflows.           *)

CapDelays == {1}
CapDraws ==
    [r : {2}, pick : {"max"}, circadian : {0}, sleep : {1, 3},
     steps : {800}, calories : {180}, hydration_ml : {600}, meals : {1}]

InitCap == Init /\ ~IsHttp(data_source)

TickCap ==
    \E dt \in CapDelays, draw \in CapDraws :
        now + dt <= MaxNowCap /\ RunSimulated(dt, draw)

NextCap == TickCap

SpecCap == InitCap /\ [][NextCap]_vars

----------------------------------------------------------------------------
(* Properties *)

\* the raw heart rate and the raw panels of the payload of the last run
RawHr(raw) == IF raw.kind = "map" THEN Get(raw.m, "heart_rate_bpm", Absent) ELSE Absent
RawTimestamp(raw) == IF raw.kind = "map" THEN Get(raw.m, "timestamp", Absent) ELSE Absent

\* the payload carries, under panel, a mapping that has key
Supplies(raw, panel, key) ==
    /\ raw.kind = "map"
    /\ panel \in DOMAIN raw.m
    /\ raw.m[panel].kind = "map"
    /\ key \in DOMAIN raw.m[panel].m

\* the value a field must have after a merge of the payload raw
Merged(previous, raw, panel, key) ==
    IF Supplies(raw, panel, key) THEN raw.m[panel].m[key] ELSE previous

\* every field of the three panels is the merge of the payload raw into the old state
PanelsMerged(raw) ==
    /\ \A k \in DOMAIN sleep : sleep'[k] = Merged(sleep[k], raw, "sleep", k)
    /\ \A k \in DOMAIN fitness : fitness'[k] = Merged(fitness[k], raw, "fitness", k)
    /\ \A k \in DOMAIN nutrition : nutrition'[k] = Merged(nutrition[k], raw, "nutrition", k)

Min(a, b) == IF a <= b THEN a ELSE b

\* new is old with at most one entry appended and then cut to the capacity from the front
OldestDropped(old, new) ==
    LET shift == Len(old) + 1 - Len(new)
    IN /\ Len(new) = Min(Len(old) + 1, AlertLogCapacity)
       /\ \A i \in 1..(Len(new) - 1) : new[i] = old[i + shift]

\* C1: after a run that appended a sample, every sample left in hr_series is no older
\* than the clock reading of that run minus ten minutes, and a sample whose own instant
\* is older than that is not in the window, not even right after its own append.
C1_NoStaleSample ==
    hr_int # None =>
        /\ \A i \in 1..Len(hr_series) : Instant(hr_series[i][1]) >= now - WindowMinutes
        /\ Instant(ts[1]) < now - WindowMinutes =>
              \A i \in 1..Len(hr_series) : hr_series[i] # <<ts[1], hr_int[1]>>

\* a run appended a sample that was stale already, while an older sample stayed
C1_Witness ==
    /\ hr_int # None
    /\ Instant(ts[1]) < now - WindowMinutes
    /\ Len(hr_series) = 1
    /\ Instant(hr_series[1][1]) > Instant(ts[1])

\* C2: a run with heart rate v appends exactly one EMERGENCY entry of value v when
\* v >= alert_high or v <= alert_low, and leaves the log as it was when v lies strictly
\* between the alert thresholds (the safe thresholds play no part).
C2_OneAlertPerBreach ==
    [][hr_int' # None =>
          IF hr_int'[1] >= alert_high \/ hr_int'[1] <= alert_low
          THEN /\ OldestDropped(alerts, alerts')
               /\ alerts'[Len(alerts')].type = "EMERGENCY"
               /\ alerts'[Len(alerts')].value = hr_int'[1]
          ELSE alerts' = alerts]_vars

\* one alert was logged for 130, and the last run read 110, above safe_high, and logged none
C2_Witness ==
    /\ result = "completed"
    /\ hr_int = Some(110)
    /\ safe_high < 110
    /\ Len(alerts) = 1
    /\ alerts[1].value = 130

\* C3: the log never holds more than 50 entries, and a run that logs an alert appends
\* it as the newest entry and drops, when that makes 51, the oldest one: the log is the
\* most recent alerts, at most 50, in the order they were logged.
C3_LogBounded ==
    [][/\ Len(alerts') <= AlertLogCapacity
       /\ alerts' # alerts => OldestDropped(alerts, alerts')
       /\ (hr_int' # None /\ (hr_int'[1] >= alert_high \/ hr_int'[1] <= alert_low)) =>
             /\ OldestDropped(alerts, alerts')
             /\ alerts'[Len(alerts')].time.wall = Instant(ts'[1])]_vars

\* the log is full and its oldest entries have been dropped
C3_Witness ==
    /\ Len(alerts) = AlertLogCapacity
    /\ alerts[1].time.wall > 1
    /\ alerts[AlertLogCapacity].time.wall = alerts[1].time.wall + AlertLogCapacity - 1

\* C4: when the HTTP source is selected and the fetch fails, the run completes on a
\* payload of simulate_payload_dict, called once.
C4_FallbackCompletes ==
    (IsHttp(data_source) /\ fetched \in {"empty_url", "exception", "bad_status", "bad_json"}) =>
        /\ sim_calls = 1
        /\ payload # None
        /\ result = "completed"
        /\ last_sync = Some(NowUtc(now))

\* C5: a run whose payload has no usable heart rate adds no sample and no alert, and
\* still merges the three panels from the payload.
C5_NoHeartRate ==
    [][(payload' # None /\ (RawHr(payload'[1]).kind \in {"absent", "null"}
                             \/ IntOf(RawHr(payload'[1])) = None)) =>
          /\ hr_series' = hr_series
          /\ alerts' = alerts
          /\ PanelsMerged(payload'[1])]_vars

\* C6: after a run, each of the six panel fields is the value the payload supplies for
\* it, or its previous value when the payload supplies none.
C6_PanelMerge ==
    [][payload' # None => PanelsMerged(payload'[1])]_vars

\* C7: a run that got a payload goes through to the end: it does not raise and it
\* stamps last_sync with the clock reading.
C7_RunCompletes ==
    payload # None => (result = "completed" /\ last_sync = Some(NowUtc(now)))

\* C8: with alert_low < alert_high, simulate_payload_dict returns a payload on every call.
C8_SimulationNeverFails ==
    (sim_calls = 1 /\ alert_low < alert_high) => (payload # None /\ result # "raised")

\* the forms a raw timestamp can take: those of a remote payload, and typed datetimes
TimestampForms(clock) ==
    Timestamps(clock)
    \cup {[kind |-> "datetime", d |-> Naive(clock)],
          [kind |-> "datetime", d |-> Aware(clock, 0)],
          [kind |-> "datetime", d |-> Aware(clock + 60, 60)]}

\* C9: every sample is a pair of an aware datetime in UTC and an integer, and
\* parse_payload returns an aware datetime in UTC for every form of raw timestamp; a
\* timestamp ending in Z and one ending in +00:00 are stored as the same instant, the
\* UTC reading they both spell.
C9_UtcSamples ==
    /\ \A i \in 1..Len(hr_series) :
          /\ hr_series[i][1].aware
          /\ hr_series[i][1].off = 0
          /\ hr_series[i][2] \in Int
    /\ \A raw \in TimestampForms(now) :
          /\ ParseTimestamp(raw, now).aware
          /\ ParseTimestamp(raw, now).off = 0
    /\ (payload # None /\ hr_int # None /\ RawTimestamp(payload[1]).kind = "str") =>
          LET text == RawTimestamp(payload[1]).s
          IN text.suffix \in {"Z", "+00:00"} =>
                /\ ts[1] = Aware(text.wall, 0)
                /\ text.wall >= now - WindowMinutes =>
                      hr_series[Len(hr_series)][1] = Aware(text.wall, 0)

\* a sample was stored from a timestamp ending in Z that is not the clock reading
C9_Witness ==
    /\ payload # None
    /\ hr_int # None
    /\ RawTimestamp(payload[1]).kind = "str"
    /\ RawTimestamp(payload[1]).s = IsoText(now - WindowMinutes, "Z")
    /\ Len(hr_series) > 0
    /\ hr_series[Len(hr_series)] = <<Aware(now - WindowMinutes, 0), hr_int[1]>>

\* C10: the entries of the log stay, unchanged and in order, whatever leaves the window;
\* an entry leaves the log only when the log is full and a new one comes in.
C10_LogKeptOnEviction ==
    [][\/ /\ Len(alerts') >= Len(alerts)
          /\ SubSeq(alerts', 1, Len(alerts)) = alerts
       \/ /\ Len(alerts) = AlertLogCapacity
          /\ Len(alerts') = AlertLogCapacity
          /\ SubSeq(alerts', 1, AlertLogCapacity - 1) = Tail(alerts)]_vars

\* (T0, 130) was evicted by the append of (T0 + 11 min, 75); its alert is still logged
C10_Witness ==
    /\ Len(alerts) = 1
    /\ alerts[1].value = 130
    /\ Len(hr_series) = 1
    /\ hr_series[1][2] = 75
    /\ Instant(hr_series[1][1]) = alerts[1].time.wall + WindowMinutes + 1

====
